---- MODULE Spec2Model ----
(***************************************************************************)
(* TrieDBNodeIterator (trie-db/src/iterator.rs): the pre-order node        *)
(* iterator and its seek over a hash-addressed radix trie.                 *)
(*                                                                         *)
(* A trie is a node store (id -> decoded node) with a root id.  A child    *)
(* reference is the id of the child node, or NoChild for an absent slot.   *)
(* A Crumb holds the id of its node (the Rc<OwnedNode>) and a Status.      *)
(***************************************************************************)
EXTENDS Integers, Sequences, FiniteSets, TLC

VARIABLES
    trie,         \* the trie the iterator walks (an index of Tries)
    trail,        \* TrieDBNodeIterator::trail
    key_nibbles,  \* TrieDBNodeIterator::key_nibbles
    ret,          \* what the last call of next() returned
    yields,       \* the items next() yielded since new() or the last seek()
    fresh,        \* no seek() since new()
    seek_key      \* the key of the last seek()

vars == <<trie, trail, key_nibbles, ret, yields, fresh, seek_key>>

(***************************************************************************)
(* Bounds and constants                                                    *)
(***************************************************************************)
\* nibble_ops::NIBBLE_LENGTH: the number of children of a branch.
NIBBLE_LENGTH == 16

\* Longest seek key, in bytes.
MaxKeyBytes == 2

\* The nibbles seek keys are made of: below, at, between and above the
\* nibbles the tries below use.
KeyNibbles == {0, 1, 2, 15}

NoChild == 0

(***************************************************************************)
(* Nibble paths (NibbleVec / NibbleSlice) as sequences of nibbles          *)
(***************************************************************************)
\* NibbleSlice::new(bytes): two nibbles per byte, the high nibble first.
RECURSIVE NibbleSlice_new(_)
NibbleSlice_new(bytes) ==
    IF bytes = <<>> THEN <<>>
    ELSE <<Head(bytes) \div 16, Head(bytes) % 16>> \o NibbleSlice_new(Tail(bytes))

\* NibbleSlice::starts_with
starts_with(s, p) ==
    /\ Len(p) <= Len(s)
    /\ \A i \in 1..Len(p) : s[i] = p[i]

\* Ord for NibbleSlice: lexicographic nibble order, a strict prefix is less.
RECURSIVE NibbleLess(_, _)
NibbleLess(a, b) ==
    IF b = <<>> THEN FALSE
    ELSE IF a = <<>> THEN TRUE
    ELSE IF Head(a) # Head(b) THEN Head(a) < Head(b)
    ELSE NibbleLess(Tail(a), Tail(b))

\* NibbleSlice::mid(k): the slice starting k nibbles in.
mid(s, k) == SubSeq(s, k + 1, Len(s))

\* A Prefix: the whole bytes of a nibble path, and its last nibble, padded
\* to a byte, when the path has an odd number of nibbles.
Prefix(v) ==
    [bytes |-> [i \in 1..(Len(v) \div 2) |-> 16 * v[2 * i - 1] + v[2 * i]],
     last  |-> IF Len(v) % 2 = 1 THEN <<16 * v[Len(v)]>> ELSE <<>>]

\* NibbleSlice::back(k) followed by left(): the first k nibbles of the key,
\* as a Prefix.
back_left(key, k) == Prefix(SubSeq(key, 1, k))

\* NibbleVec::push / pop / append / append_partial / drop_lasts / as_prefix
push(v, n) == Append(v, n)

pop(v) == IF v = <<>> THEN v ELSE SubSeq(v, 1, Len(v) - 1)

append(v, p) == v \o p

drop_lasts(v, n) == IF n >= Len(v) THEN <<>> ELSE SubSeq(v, 1, Len(v) - n)

as_prefix(v) == Prefix(v)

(***************************************************************************)
(* Nodes and tries                                                         *)
(***************************************************************************)
Empty == [kind |-> "Empty"]

Leaf(p) == [kind |-> "Leaf", partial |-> p]

Extension(p, c) == [kind |-> "Extension", partial |-> p, child |-> c]

\* The child slots of a branch: f maps the present nibbles to child ids.
Children(f) ==
    [i \in 0..(NIBBLE_LENGTH - 1) |-> IF i \in DOMAIN f THEN f[i] ELSE NoChild]

Branch(f) == [kind |-> "Branch", children |-> Children(f)]

NibbledBranch(p, f) ==
    [kind |-> "NibbledBranch", partial |-> p, children |-> Children(f)]

\* A hash the store has no entry for, and stored bytes the codec rejects.
Missing == [kind |-> "Missing"]

Corrupt == [kind |-> "Corrupt"]

\* The tries the iterator is run over: the Extension/Branch layout (1..5)
\* and the NibbledBranch layout (6..9).  Tries 3 and 7 are the ones the
\* repository's tests build (keys 01, 0123, 02), with nibble 3 written 15.
\* Tries 10..15 are tries over a store that has lost an entry or holds
\* bytes the codec rejects.
Tries == <<
    \* 1: the empty trie
    [root |-> 1, nodes |-> <<Empty>>],
    \* 2: keys 1F, 2F: the two leaves have one encoding, node 2
    [root |-> 1, nodes |-> <<Branch(1 :> 2 @@ 2 :> 2), Leaf(<<15>>)>>],
    \* 3: keys 01, 012F, 02
    [root |-> 1, nodes |-> <<
        Extension(<<0>>, 2),
        Branch(1 :> 3 @@ 2 :> 5),
        Branch(2 :> 4),
        Leaf(<<15>>),
        Leaf(<<>>) >>],
    \* 4: keys 1112, 1121 (node 5 is a stale store entry)
    [root |-> 2, nodes |-> <<
        Branch(1 :> 3 @@ 2 :> 4),
        Extension(<<1, 1>>, 1),
        Leaf(<<2>>),
        Leaf(<<1>>),
        Leaf(<<0>>) >>],
    \* 5: keys 01, 2011, 2022, FF
    [root |-> 1, nodes |-> <<
        Branch(0 :> 2 @@ 2 :> 3 @@ 15 :> 7),
        Leaf(<<1>>),
        Extension(<<0>>, 4),
        Branch(1 :> 5 @@ 2 :> 6),
        Leaf(<<1>>),
        Leaf(<<2>>),
        Leaf(<<15>>) >>],
    \* 6: one key, 12
    [root |-> 1, nodes |-> <<Leaf(<<1, 2>>)>>],
    \* 7: keys 01, 012F, 02
    [root |-> 1, nodes |-> <<
        NibbledBranch(<<0>>, 1 :> 2 @@ 2 :> 4),
        NibbledBranch(<<>>, 2 :> 3),
        Leaf(<<15>>),
        Leaf(<<>>) >>],
    \* 8: keys 1112, 1121 (node 1 is a stale store entry)
    [root |-> 2, nodes |-> <<
        Leaf(<<0>>),
        NibbledBranch(<<1, 1>>, 1 :> 3 @@ 2 :> 4),
        Leaf(<<2>>),
        Leaf(<<1>>) >>],
    \* 9: keys 01, 1100, 1122, FF
    [root |-> 1, nodes |-> <<
        NibbledBranch(<<>>, 0 :> 2 @@ 1 :> 3 @@ 15 :> 6),
        Leaf(<<1>>),
        NibbledBranch(<<1>>, 0 :> 4 @@ 2 :> 5),
        Leaf(<<0>>),
        Leaf(<<2>>),
        Leaf(<<15>>) >> ],
    \* 10: a root the codec rejects
    [root |-> 1, nodes |-> <<Corrupt>>],
    \* 11: trie 3, the store has lost the leaf of key 012F
    [root |-> 1, nodes |-> <<
        Extension(<<0>>, 2),
        Branch(1 :> 3 @@ 2 :> 5),
        Branch(2 :> 4),
        Missing,
        Leaf(<<>>) >>],
    \* 12: trie 3, the store has lost the branch under the root extension
    [root |-> 1, nodes |-> <<Extension(<<0>>, 2), Missing>>],
    \* 13: trie 5, the branch under the extension is rejected by the codec
    [root |-> 1, nodes |-> <<
        Branch(0 :> 2 @@ 2 :> 3 @@ 15 :> 7),
        Leaf(<<1>>),
        Extension(<<0>>, 4),
        Corrupt,
        Leaf(<<1>>),
        Leaf(<<2>>),
        Leaf(<<15>>) >>],
    \* 14: trie 7, the leaf of key 012F is rejected by the codec
    [root |-> 1, nodes |-> <<
        NibbledBranch(<<0>>, 1 :> 2 @@ 2 :> 4),
        NibbledBranch(<<>>, 2 :> 3),
        Corrupt,
        Leaf(<<>>) >>],
    \* 15: trie 9, the store has lost the inner branch
    [root |-> 1, nodes |-> <<
        NibbledBranch(<<>>, 0 :> 2 @@ 1 :> 3 @@ 15 :> 6),
        Leaf(<<1>>),
        Missing,
        Leaf(<<0>>),
        Leaf(<<2>>),
        Leaf(<<15>>) >> ]
    >>

\* TrieDB::root_data: the encoded root node.
root_data(t) == Tries[t].root

\* Hasher::hash of encoded node bytes, and the default (all zero) hash.
L_Hash_hash(node_data) == [hash |-> node_data]

default_hash == [hash |-> NoChild]

\* TrieError
IncompleteDatabase(h) == [kind |-> "IncompleteDatabase", hash |-> h]

DecoderError(h) == [kind |-> "DecoderError", hash |-> h]

NoErr == [kind |-> "NoErr"]

\* TrieDB::get_raw_or_lookup(child, prefix): the encoded node a child
\* reference stands for (inline bytes or the store's entry for the hash);
\* IncompleteDatabase when the store has no entry for the hash.
get_raw_or_lookup(t, child, prefix) ==
    IF Tries[t].nodes[child].kind = "Missing"
    THEN [ok |-> FALSE, err |-> IncompleteDatabase(L_Hash_hash(child))]
    ELSE [ok |-> TRUE, data |-> child]

\* NodeCodec::decode rejects the bytes.
decode_fails(t, node_data) == Tries[t].nodes[node_data].kind = "Corrupt"

\* NodeCodec::decode and the conversion to OwnedNode.
decode(t, node_data) == Tries[t].nodes[node_data]

(***************************************************************************)
(* Status and Crumb                                                        *)
(***************************************************************************)
Entering == [tag |-> "Entering"]

At == [tag |-> "At"]

AtChild(i) == [tag |-> "AtChild", x |-> i]

Exiting == [tag |-> "Exiting"]

IsAtChild(s) == s.tag = "AtChild"

IsBranchKind(n) == n.kind \in {"Branch", "NibbledBranch"}

\* Mutant of increment: the bound on the child index is one too small, so
\* the last child of a branch is never visited.
increment_stops_early(t, crumb) ==
    LET n == decode(t, crumb.node)
        s == crumb.status
    IN  [crumb EXCEPT !.status =
            IF s = Entering /\ n.kind = "Extension" THEN At
            ELSE IF s = Entering /\ IsBranchKind(n) THEN At
            ELSE IF s = At /\ IsBranchKind(n) THEN AtChild(0)
            ELSE IF IsAtChild(s) /\ IsBranchKind(n) /\ s.x < NIBBLE_LENGTH - 2
                 THEN AtChild(s.x + 1)
            ELSE Exiting]

\* Mutant of increment: the children of a branch are counted from 1.
increment_from_one(t, crumb) ==
    LET n == decode(t, crumb.node)
        s == crumb.status
    IN  [crumb EXCEPT !.status =
            IF s = Entering /\ n.kind = "Extension" THEN At
            ELSE IF s = Entering /\ IsBranchKind(n) THEN At
            ELSE IF s = At /\ IsBranchKind(n) THEN AtChild(1)
            ELSE IF IsAtChild(s) /\ IsBranchKind(n) /\ s.x < NIBBLE_LENGTH - 1
                 THEN AtChild(s.x + 1)
            ELSE Exiting]

\* Mutant of increment: after the last child the cursor starts over.
increment_wraps(t, crumb) ==
    LET n == decode(t, crumb.node)
        s == crumb.status
    IN  [crumb EXCEPT !.status =
            IF s = Entering /\ n.kind = "Extension" THEN At
            ELSE IF s = Entering /\ IsBranchKind(n) THEN At
            ELSE IF s = At /\ IsBranchKind(n) THEN AtChild(0)
            ELSE IF IsAtChild(s) /\ IsBranchKind(n)
                 THEN AtChild((s.x + 1) % NIBBLE_LENGTH)
            ELSE Exiting]

\* Crumb::increment: the next status in the node's sequence.
increment(t, crumb) ==
    LET n == decode(t, crumb.node)
        s == crumb.status
    IN  [crumb EXCEPT !.status =
            IF s = Entering /\ n.kind = "Extension" THEN At
            ELSE IF s = Entering /\ IsBranchKind(n) THEN At
            ELSE IF s = At /\ IsBranchKind(n) THEN AtChild(0)
            ELSE IF IsAtChild(s) /\ IsBranchKind(n) /\ s.x < NIBBLE_LENGTH - 1
                 THEN AtChild(s.x + 1)
            ELSE Exiting]

\* Mutant of descend_into_node: no crumb is pushed.
descend_into_node_without_push(tr, node) == tr

\* TrieDBNodeIterator::descend_into_node
descend_into_node(tr, node) == Append(tr, [node |-> node, status |-> Entering])

\* crumb.status = s on the last crumb of the trail
set_status(tr, s) == [tr EXCEPT ![Len(tr)].status = s]

\* self.trail.last_mut().increment()
increment_last(t, tr) == [tr EXCEPT ![Len(tr)] = increment(t, tr[Len(tr)])]

(***************************************************************************)
(* seek                                                                    *)
(***************************************************************************)
\* The state of the iterator: the trail and key_nibbles.
Iter(tr, kn) == [trail |-> tr, key_nibbles |-> kn]

\* Mutant of seek_leaf: the leaf is never marked Exiting.
seek_leaf_keeps_entering(tr, kn, node, partial) == Iter(tr, kn)

\* Mutant of seek_leaf: a leaf behind the key is marked At.
seek_leaf_marks_at(tr, kn, node, partial) ==
    IF NibbleLess(node.partial, partial)
    THEN Iter(set_status(tr, At), kn)
    ELSE Iter(tr, kn)

\* seek, Node::Leaf arm: a leaf behind the key is not to be yielded.
seek_leaf(tr, kn, node, partial) ==
    IF NibbleLess(node.partial, partial)
    THEN Iter(set_status(tr, Exiting), kn)
    ELSE Iter(tr, kn)

\* Mutant of seek_extension_mismatch: the Extension is never marked Exiting.
seek_extension_mismatch_keeps_entering(tr, kn, node, partial) == Iter(tr, kn)

\* seek, Node::Extension arm, the key leaves the partial path.
seek_extension_mismatch(tr, kn, node, partial) ==
    IF NibbleLess(node.partial, partial)
    THEN Iter(set_status(tr, Exiting), append(kn, node.partial))
    ELSE Iter(tr, kn)

\* Mutant of seek_extension_enter: the crumb's status is not set to At.
seek_extension_enter_keeps_entering(tr, kn, node) ==
    Iter(tr, append(kn, node.partial))

\* seek, Node::Extension arm, the key follows the partial path.
seek_extension_enter(tr, kn, node) ==
    Iter(set_status(tr, At), append(kn, node.partial))

\* Mutant of seek_branch_enter: the nibble of the key is not pushed.
seek_branch_enter_without_nibble(tr, kn, i) ==
    Iter(set_status(tr, AtChild(i)), kn)

\* Mutant of seek_branch_enter: the branch is left at its first child.
seek_branch_enter_at_first_child(tr, kn, i) ==
    Iter(set_status(tr, AtChild(0)), push(kn, i))

\* seek, Node::Branch arm, the key selects child i.
seek_branch_enter(tr, kn, i) ==
    Iter(set_status(tr, AtChild(i)), push(kn, i))

\* Mutant of seek_nibbled_mismatch: the branch is marked Exiting whichever
\* way the partial path and the key compare.
seek_nibbled_mismatch_always_exits(tr, kn, node, partial) ==
    Iter(set_status(tr, Exiting),
         push(append(kn, node.partial), NIBBLE_LENGTH - 1))

\* Mutant of seek_nibbled_mismatch: the partial path is appended without
\* the nibble that stands for a child.
seek_nibbled_mismatch_without_sentinel(tr, kn, node, partial) ==
    IF NibbleLess(node.partial, partial)
    THEN Iter(set_status(tr, Exiting), append(kn, node.partial))
    ELSE Iter(tr, kn)

\* seek, Node::NibbledBranch arm, the key leaves the partial path.
seek_nibbled_mismatch(tr, kn, node, partial) ==
    IF NibbleLess(node.partial, partial)
    THEN Iter(set_status(tr, Exiting),
              push(append(kn, node.partial), NIBBLE_LENGTH - 1))
    ELSE Iter(tr, kn)

\* Mutant of seek_nibbled_enter: the branch stays Entering above its child.
seek_nibbled_enter_keeps_entering(tr, kn, node, i) ==
    Iter(tr, push(append(kn, node.partial), i))

\* seek, Node::NibbledBranch arm, the key follows the partial path and
\* selects child i.
seek_nibbled_enter(tr, kn, node, i) ==
    Iter(set_status(tr, AtChild(i)), push(append(kn, node.partial), i))

\* seek, Node::Empty arm.
seek_empty(tr, kn, partial) ==
    IF partial # <<>>
    THEN Iter(set_status(tr, Exiting), kn)
    ELSE Iter(tr, kn)

\* What seek returns, with the state it leaves: Ok(()) or Err(err); and the
\* child lookups it made, each with the trail and key_nibbles of the moment.
Sought(it, err) ==
    [trail |-> it.trail, key_nibbles |-> it.key_nibbles, err |-> err,
     lookups |-> <<>>]

Lookup(tr, kn, child, prefix) ==
    [trail |-> tr, key_nibbles |-> kn, child |-> child, prefix |-> prefix]

with_lookup(r, l) == [r EXCEPT !.lookups = <<l>> \o @]

\* TrieDBNodeIterator::seek (the private walk from the root): seek_loop is
\* one turn of its loop, for one node, until a return; seek_child is the
\* lookup of the child the walk goes on with.
RECURSIVE seek_loop(_, _, _, _, _, _)
RECURSIVE seek_child(_, _, _, _, _, _)
seek_loop(t, it, node_data, key, partial, full_key_nibbles) ==
    IF decode_fails(t, node_data)
    THEN Sought(it, DecoderError(L_Hash_hash(node_data)))
    ELSE
    LET node == decode(t, node_data)
        tr == descend_into_node(it.trail, node_data)
        kn == it.key_nibbles
    IN
    CASE node.kind = "Leaf" -> Sought(seek_leaf(tr, kn, node, partial), NoErr)
      [] node.kind = "Extension" ->
            IF ~starts_with(partial, node.partial)
            THEN Sought(seek_extension_mismatch(tr, kn, node, partial), NoErr)
            ELSE seek_child(t, seek_extension_enter(tr, kn, node), node.child,
                            key, mid(partial, Len(node.partial)),
                            full_key_nibbles + Len(node.partial))
      [] node.kind = "Branch" ->
            IF partial = <<>> THEN Sought(Iter(tr, kn), NoErr)
            ELSE IF node.children[partial[1]] # NoChild
            THEN seek_child(t, seek_branch_enter(tr, kn, partial[1]),
                            node.children[partial[1]],
                            key, mid(partial, 1), full_key_nibbles + 1)
            ELSE Sought(seek_branch_enter(tr, kn, partial[1]), NoErr)
      [] node.kind = "NibbledBranch" ->
            IF ~starts_with(partial, node.partial)
            THEN Sought(seek_nibbled_mismatch(tr, kn, node, partial), NoErr)
            ELSE LET rest == mid(partial, Len(node.partial))
                 IN  IF rest = <<>> THEN Sought(Iter(tr, kn), NoErr)
                     ELSE IF node.children[rest[1]] # NoChild
                     THEN seek_child(t, seek_nibbled_enter(tr, kn, node, rest[1]),
                                     node.children[rest[1]],
                                     key, mid(rest, 1),
                                     full_key_nibbles + Len(node.partial) + 1)
                     ELSE Sought(seek_nibbled_enter(tr, kn, node, rest[1]), NoErr)
      [] node.kind = "Empty" -> Sought(seek_empty(tr, kn, partial), NoErr)

\* Mutant of seek_child: the prefix is taken of the key as it starts, not
\* of the key up to the child.
seek_child_prefix_of_start(t, it, child, key, partial, full_key_nibbles) ==
    LET prefix == back_left(key, 0)
        looked == get_raw_or_lookup(t, child, prefix)
        l == Lookup(it.trail, it.key_nibbles, child, prefix)
    IN  IF looked.ok
        THEN with_lookup(seek_loop(t, it, looked.data, key, partial,
                                   full_key_nibbles), l)
        ELSE with_lookup(Sought(it, looked.err), l)

seek_child(t, it, child, key, partial, full_key_nibbles) ==
    LET prefix == back_left(key, full_key_nibbles)
        looked == get_raw_or_lookup(t, child, prefix)
        l == Lookup(it.trail, it.key_nibbles, child, prefix)
    IN  IF looked.ok
        THEN with_lookup(seek_loop(t, it, looked.data, key, partial,
                                   full_key_nibbles), l)
        ELSE with_lookup(Sought(it, looked.err), l)

\* Vec::clear / NibbleVec::clear
clear(v) == <<>>

\* Mutant of seek: key_nibbles is not cleared.
seek_keeps_path(t, it, key) ==
    seek_loop(t, Iter(clear(it.trail), it.key_nibbles), root_data(t),
              NibbleSlice_new(key), NibbleSlice_new(key), 0)

\* Mutant of seek: the trail is not cleared.
seek_keeps_trail(t, it, key) ==
    seek_loop(t, Iter(it.trail, clear(it.key_nibbles)), root_data(t),
              NibbleSlice_new(key), NibbleSlice_new(key), 0)

\* TrieIterator::seek: clear the trail and the path, walk from the root.
seek(t, it, key) ==
    seek_loop(t, Iter(clear(it.trail), clear(it.key_nibbles)), root_data(t),
              NibbleSlice_new(key), NibbleSlice_new(key), 0)

\* TrieDBNodeIterator::descend: resolve a payload, decode it, push its crumb.
descend(t, it, d) ==
    LET looked == get_raw_or_lookup(t, d, as_prefix(it.key_nibbles))
    IN  IF ~looked.ok THEN Sought(it, looked.err)
        ELSE IF decode_fails(t, looked.data)
        THEN Sought(it, DecoderError(default_hash))
        ELSE Sought(Iter(descend_into_node(it.trail, looked.data),
                         it.key_nibbles), NoErr)

\* Mutant of new: the root is not descended into.
new_without_root(t) == Sought(Iter(<<>>, <<>>), NoErr)

\* TrieDBNodeIterator::new: an empty trail and path, then descend into the root.
new(t) == descend(t, Iter(<<>>, <<>>), root_data(t))

(***************************************************************************)
(* next                                                                    *)
(***************************************************************************)
\* The values next() returns; NoCall stands for "not called since the
\* iterator was positioned".
None == [tag |-> "None"]

Some(path, node) == [tag |-> "Some", path |-> path, node |-> node]

Panic == [tag |-> "Panic"]

NoCall == [tag |-> "NoCall"]

SomeErr(err) == [tag |-> "SomeErr", err |-> err]

\* What seek() or new() returned, when it is an error.
Err(err) == [tag |-> "Err", err |-> err]

\* What a call of next() returns, with the state it leaves, the number of
\* turns its loop took, and what the turns did: the Exiting steps (the
\* trail and key_nibbles before, key_nibbles after) and the child lookups.
Returned(it, r) ==
    [trail |-> it.trail, key_nibbles |-> it.key_nibbles, ret |-> r,
     steps |-> 0, exits |-> <<>>, lookups |-> <<>>]

Exit(tr, before, after) == [trail |-> tr, before |-> before, after |-> after]

\* One more turn of the loop in front of what follows it.
after_step(r, exits, lookups) ==
    [r EXCEPT !.steps = @ + 1, !.exits = exits \o @, !.lookups = lookups \o @]

\* IterStep::Descend: the node to descend into, or the error to return.
descend_step(t, looked) ==
    IF ~looked.ok THEN [ok |-> FALSE, err |-> looked.err]
    ELSE IF decode_fails(t, looked.data)
    THEN [ok |-> FALSE, err |-> DecoderError(L_Hash_hash(looked.data))]
    ELSE [ok |-> TRUE, node |-> looked.data]

\* Mutant of exiting_drop: a Branch leaves its child nibble on the path.
exiting_drop_keeps_branch_nibble(n, kn) ==
    CASE n.kind \in {"Empty", "Leaf", "Branch"} -> kn
      [] n.kind = "Extension" -> drop_lasts(kn, Len(n.partial))
      [] n.kind = "NibbledBranch" -> drop_lasts(kn, Len(n.partial) + 1)

\* Mutant of exiting_drop: a NibbledBranch takes nothing off.
exiting_drop_keeps_nibbled_path(n, kn) ==
    CASE n.kind \in {"Empty", "Leaf"} -> kn
      [] n.kind = "Extension" -> drop_lasts(kn, Len(n.partial))
      [] n.kind = "Branch" -> pop(kn)
      [] n.kind = "NibbledBranch" -> kn

\* The nibbles the Exiting arm takes off key_nibbles.
exiting_drop(n, kn) ==
    CASE n.kind \in {"Empty", "Leaf"} -> kn
      [] n.kind = "Extension" -> drop_lasts(kn, Len(n.partial))
      [] n.kind = "Branch" -> pop(kn)
      [] n.kind = "NibbledBranch" -> drop_lasts(kn, Len(n.partial) + 1)

\* Mutant of child_path: the nibble of the child is pushed without popping
\* the nibble of the slot before.
child_path_without_pop(kn, i) == push(kn, i)

\* The AtChild arm's path of child i: the last nibble replaced by i.
child_path(kn, i) == push(pop(kn), i)

\* Iterator::next: one turn of its loop per step, until a return.
RECURSIVE next_loop(_, _)
RECURSIVE next_descend(_, _, _, _)
next_loop(t, it) ==
    IF it.trail = <<>> THEN after_step(Returned(it, None), <<>>, <<>>)
    ELSE
    LET tr == it.trail
        kn == it.key_nibbles
        b == tr[Len(tr)]
        n == decode(t, b.node)
    IN
    CASE b.status = Entering ->
            \* YieldNode
            after_step(Returned(Iter(increment_last(t, tr), kn), Some(kn, b.node)),
                       <<>>, <<>>)
      [] b.status = Exiting ->
            \* PopTrail
            LET kn1 == exiting_drop(n, kn)
                tr1 == SubSeq(tr, 1, Len(tr) - 1)
            IN  after_step(IF tr1 = <<>> THEN Returned(Iter(tr1, kn1), None)
                           ELSE next_loop(t, Iter(increment_last(t, tr1), kn1)),
                           <<Exit(tr, kn, kn1)>>, <<>>)
      [] b.status = At /\ n.kind = "Extension" ->
            \* Descend
            next_descend(t, tr, append(kn, n.partial), n.child)
      [] b.status = At /\ n.kind = "Branch" ->
            \* Continue
            after_step(next_loop(t, Iter(increment_last(t, tr), push(kn, 0))),
                       <<>>, <<>>)
      [] b.status = At /\ n.kind = "NibbledBranch" ->
            \* Continue
            after_step(next_loop(t, Iter(increment_last(t, tr),
                                         push(append(kn, n.partial), 0))),
                       <<>>, <<>>)
      [] IsAtChild(b.status) /\ IsBranchKind(n) ->
            IF n.children[b.status.x] # NoChild
            THEN \* Descend
                 next_descend(t, tr, child_path(kn, b.status.x),
                              n.children[b.status.x])
            ELSE \* Continue
                 after_step(next_loop(t, Iter(increment_last(t, tr), kn)),
                            <<>>, <<>>)
      [] OTHER -> after_step(Returned(it, Panic), <<>>, <<>>)

\* Mutant of next_descend: a child that cannot be entered is passed over.
next_descend_skips_failure(t, tr, kn, child) ==
    LET looked == get_raw_or_lookup(t, child, as_prefix(kn))
        d == descend_step(t, looked)
        l == Lookup(tr, kn, child, as_prefix(kn))
    IN  after_step(IF d.ok
                   THEN next_loop(t, Iter(descend_into_node(tr, d.node), kn))
                   ELSE next_loop(t, Iter(increment_last(t, tr), kn)),
                   <<>>, <<l>>)

\* The Descend step of next: look the child up under key_nibbles, decode
\* it and push its crumb, or return the error.
next_descend(t, tr, kn, child) ==
    LET looked == get_raw_or_lookup(t, child, as_prefix(kn))
        d == descend_step(t, looked)
        l == Lookup(tr, kn, child, as_prefix(kn))
    IN  after_step(IF d.ok
                   THEN next_loop(t, Iter(descend_into_node(tr, d.node), kn))
                   ELSE Returned(Iter(tr, kn), SomeErr(d.err)),
                   <<>>, <<l>>)

next(t, it) == next_loop(t, it)

(***************************************************************************)
(* The trie as a tree: what the properties below are stated against        *)
(***************************************************************************)
Item(path, node) == [path |-> path, node |-> node]

\* The nibbles of a branch whose child is present, ascending.
PresentNibbles(n) ==
    SelectSeq([i \in 1..NIBBLE_LENGTH |-> i - 1], LAMBDA i : n.children[i] # NoChild)

\* The partial path of a node; empty for the variants that have none.
PartialOf(n) ==
    IF n.kind \in {"Leaf", "Extension", "NibbledBranch"} THEN n.partial ELSE <<>>

\* The children of the node id sitting at path, in order, each with the
\* path at which it sits.
ChildItems(t, id, path) ==
    LET n == Tries[t].nodes[id]
    IN  CASE n.kind = "Extension" -> <<Item(path \o n.partial, n.child)>>
          [] n.kind = "Branch" ->
                [k \in 1..Len(PresentNibbles(n)) |->
                    Item(Append(path, PresentNibbles(n)[k]),
                         n.children[PresentNibbles(n)[k]])]
          [] n.kind = "NibbledBranch" ->
                [k \in 1..Len(PresentNibbles(n)) |->
                    Item(Append(path \o n.partial, PresentNibbles(n)[k]),
                         n.children[PresentNibbles(n)[k]])]
          [] OTHER -> <<>>

\* The subtree of the node id sitting at path: the node, then the subtrees
\* of its children in order.
RECURSIVE PreOrder(_, _, _)
RECURSIVE PreOrderAll(_, _)
PreOrder(t, id, path) ==
    <<Item(path, id)>> \o PreOrderAll(t, ChildItems(t, id, path))

PreOrderAll(t, items) ==
    IF items = <<>> THEN <<>>
    ELSE PreOrder(t, items[1].node, items[1].path) \o PreOrderAll(t, Tail(items))

\* Every node reachable from the root, with the path at which it sits,
\* for each of the tries.
TrieItemsOf == [t \in DOMAIN Tries |-> PreOrder(t, Tries[t].root, <<>>)]

TrieItems(t) == TrieItemsOf[t]

\* A trie as the trie builder leaves it: every child reference resolves in
\* the store, an Empty node is the root of the empty trie, an Extension has
\* a non-empty partial path and leads to a Branch, the Extension/Branch and
\* the NibbledBranch variants do not mix, a branch has a child, and every
\* leaf ends a key of whole bytes.
WellFormed(t) ==
    LET nodes == Tries[t].nodes
        items == TrieItems(t)
        kinds == {nodes[items[k].node].kind : k \in 1..Len(items)}
    IN  /\ Tries[t].root \in DOMAIN nodes
        /\ \A k \in 1..Len(items) :
            LET n == nodes[items[k].node]
            IN  /\ n.kind = "Empty" => items[k].node = Tries[t].root
                /\ n.kind = "Extension" =>
                      /\ n.partial # <<>>
                      /\ n.child \in DOMAIN nodes
                      /\ nodes[n.child].kind = "Branch"
                /\ n.kind \in {"Branch", "NibbledBranch"} =>
                      /\ PresentNibbles(n) # <<>>
                      /\ \A i \in 0..(NIBBLE_LENGTH - 1) :
                            n.children[i] \in DOMAIN nodes \cup {NoChild}
                /\ n.kind = "Leaf" => Len(items[k].path \o n.partial) % 2 = 0
                /\ n.kind \notin {"Missing", "Corrupt"}
        /\ ~({"Extension", "Branch"} \cap kinds # {} /\ "NibbledBranch" \in kinds)

\* The nodes of the trie that cannot be entered: the store has no entry
\* for them, or the codec rejects their bytes.
IsFaulty(t, item) == Tries[t].nodes[item.node].kind \in {"Missing", "Corrupt"}

FaultyItems(t) == SelectSeq(TrieItems(t), LAMBDA item : IsFaulty(t, item))

\* A well-formed trie but for nodes that cannot be entered.
WellFormedButFaulty(t) ==
    LET nodes == Tries[t].nodes
        items == TrieItems(t)
    IN  /\ FaultyItems(t) # <<>>
        /\ \A k \in 1..Len(items) :
            LET n == nodes[items[k].node]
            IN  /\ n.kind = "Extension" => n.partial # <<>> /\ n.child \in DOMAIN nodes
                /\ n.kind \in {"Branch", "NibbledBranch"} =>
                      \A i \in 0..(NIBBLE_LENGTH - 1) :
                            n.children[i] \in DOMAIN nodes \cup {NoChild}

(***************************************************************************)
(* The state machine                                                       *)
(***************************************************************************)
\* The keys seek is called with: byte strings over KeyNibbles.
KeyBytes == {16 * h + l : h \in KeyNibbles, l \in KeyNibbles}

RECURSIVE KeysOfLen(_)
KeysOfLen(n) ==
    IF n = 0 THEN {<<>>}
    ELSE {<<b>> \o k : b \in KeyBytes, k \in KeysOfLen(n - 1)}

Keys == UNION {KeysOfLen(n) : n \in 0..MaxKeyBytes}

Init ==
    /\ trie \in {t \in DOMAIN Tries : WellFormed(t)}
    /\ trail = new(trie).trail
    /\ key_nibbles = new(trie).key_nibbles
    /\ ret = IF new(trie).err = NoErr THEN NoCall ELSE Err(new(trie).err)
    /\ yields = <<>>
    /\ fresh = TRUE
    /\ seek_key = <<>>

\* A call has failed: new() gave no iterator, or the iterator is in the
\* state an error left it in, to be discarded or repositioned by a seek.
Failed == ret.tag \in {"Err", "SomeErr"}

NewFailed == fresh /\ ret.tag = "Err"

\* iter.next()
Next_ ==
    LET r == next(trie, Iter(trail, key_nibbles))
    IN  /\ ~Failed
        /\ trail' = r.trail
        /\ key_nibbles' = r.key_nibbles
        /\ ret' = r.ret
        /\ yields' = IF r.ret.tag = "Some"
                     THEN Append(yields, [path |-> r.ret.path, node |-> r.ret.node])
                     ELSE yields
        /\ UNCHANGED <<trie, fresh, seek_key>>

\* The keys a seek may be called with: one behaviour seeks one key of Keys
\* and the empty key, each any number of times.
SeekInputs == IF fresh THEN Keys ELSE {seek_key, <<>>}

\* TrieIterator::seek(&mut iter, key), at any point of a traversal.
SeekWith(key) ==
    LET it == seek(trie, Iter(trail, key_nibbles), key)
    IN  /\ ~NewFailed
        /\ trail' = it.trail
        /\ key_nibbles' = it.key_nibbles
        /\ ret' = IF it.err = NoErr THEN NoCall ELSE Err(it.err)
        /\ yields' = <<>>
        /\ fresh' = FALSE
        /\ seek_key' = key
        /\ UNCHANGED trie

Seek(key) == key \in SeekInputs /\ SeekWith(key)

Next ==
    \/ Next_
    \/ \E key \in SeekInputs : Seek(key)

Spec == Init /\ [][Next]_vars

\* The iterator over a store that has lost an entry or holds bytes the
\* codec rejects.
InitErr ==
    /\ trie \in {t \in DOMAIN Tries : WellFormedButFaulty(t)}
    /\ trail = new(trie).trail
    /\ key_nibbles = new(trie).key_nibbles
    /\ ret = IF new(trie).err = NoErr THEN NoCall ELSE Err(new(trie).err)
    /\ yields = <<>>
    /\ fresh = TRUE
    /\ seek_key = <<>>

SpecErr == InitErr /\ [][Next]_vars

\* Crumb::increment on its own: a crumb of any node in any status, and
\* the steps of its cursor.
AllStatuses == {Entering, At, Exiting} \cup {AtChild(i) : i \in 0..(NIBBLE_LENGTH - 1)}

InitCrumb ==
    /\ trie \in {t \in DOMAIN Tries : WellFormed(t)}
    /\ \E node \in DOMAIN Tries[trie].nodes, s \in AllStatuses :
          trail = <<[node |-> node, status |-> s]>>
    /\ key_nibbles = <<>>
    /\ ret = NoCall
    /\ yields = <<>>
    /\ fresh = TRUE
    /\ seek_key = <<>>

\* crumb.increment()
Increment ==
    /\ trail' = increment_last(trie, trail)
    /\ UNCHANGED <<trie, key_nibbles, ret, yields, fresh, seek_key>>

SpecCrumb == InitCrumb /\ [][Increment]_vars

\* The iterator sought with any key of a small set at any point: every
\* order of seeks with different keys and calls of next().
AnyKeyNibbles == {1, 2, 15}

MaxAnyKeyBytes == 1

RECURSIVE AnyKeysOfLen(_)
AnyKeysOfLen(n) ==
    IF n = 0 THEN {<<>>}
    ELSE {<<16 * h + l>> \o k : h \in AnyKeyNibbles, l \in AnyKeyNibbles,
                                k \in AnyKeysOfLen(n - 1)}

AnyKeys == UNION {AnyKeysOfLen(n) : n \in 0..MaxAnyKeyBytes}

NextAny ==
    \/ Next_
    \/ \E key \in AnyKeys : SeekWith(key)

SpecAny == Init /\ [][NextAny]_vars

\* The path at which a node sits followed by the node's own partial path.
FullPath(t, item) == item.path \o PartialOf(Tries[t].nodes[item.node])

\* a >= b in lexicographic nibble order
NibbleGeq(a, b) == ~NibbleLess(a, b)

IsPrefix(p, s) == Len(p) <= Len(s) /\ SubSeq(s, 1, Len(p)) = p

\* The key of the last seek, in nibbles.
SeekNibbles == NibbleSlice_new(seek_key)

\* next() has been called since the last seek.
AfterSeekAndNext == ~fresh /\ ret # NoCall

(***************************************************************************)
(* C1                                                                      *)
(***************************************************************************)
\* The nodes whose full path is >= the key of the last seek, in traversal order.
AtOrAfterKey ==
    SelectSeq(TrieItems(trie), LAMBDA it : NibbleGeq(FullPath(trie, it), SeekNibbles))

\* C1 as stated: after seek(K) the first next() yields the first node in
\* traversal order whose full path is >= K, and None if there is none.
C1_FirstFullPathGeq ==
    AfterSeekAndNext =>
        IF AtOrAfterKey = <<>> THEN yields = <<>> /\ ret = None
        ELSE yields # <<>> /\ yields[1] = AtOrAfterKey[1]

\* An Extension whose full path is exactly the key: seek walks through it.
IsExtensionAtKey(it) ==
    /\ Tries[trie].nodes[it.node].kind = "Extension"
    /\ FullPath(trie, it) = SeekNibbles

AtOrAfterKeyAmended == SelectSeq(AtOrAfterKey, LAMBDA it : ~IsExtensionAtKey(it))

\* C1 amended: after seek(K) the first next() yields the first node in
\* traversal order whose full path is >= K and that is not an Extension
\* whose full path equals K, and None if there is no such node.
C1_FirstFullPathGeqAmended ==
    AfterSeekAndNext =>
        IF AtOrAfterKeyAmended = <<>> THEN yields = <<>> /\ ret = None
        ELSE yields # <<>> /\ yields[1] = AtOrAfterKeyAmended[1]

\* C1 witness: a seek into the middle of a trie, below an Extension whose
\* full path is the key, has yielded the Extension's child.
C1_Witness ==
    /\ AfterSeekAndNext
    /\ Len(AtOrAfterKeyAmended) < Len(AtOrAfterKey)
    /\ Len(AtOrAfterKey) < Len(TrieItems(trie))
    /\ yields # <<>>
    /\ yields[1] = AtOrAfterKeyAmended[1]

\* The traversal of a fresh iterator: new(), then next() until None.
RECURSIVE Drain(_, _)
Drain(t, it) ==
    LET r == next(t, it)
    IN  IF r.ret.tag = "Some"
        THEN <<Item(r.ret.path, r.ret.node)>> \o Drain(t, Iter(r.trail, r.key_nibbles))
        ELSE <<>>

\* What a traversal from new() to the first call that yields no node
\* yields, for each of the tries.
FreshTraversalOf ==
    [t \in DOMAIN Tries |-> Drain(t, Iter(new(t).trail, new(t).key_nibbles))]

FreshTraversal(t) == FreshTraversalOf[t]

Range(q) == {q[i] : i \in 1..Len(q)}

NoDuplicates(q) == \A i, j \in 1..Len(q) : q[i] = q[j] => i = j

IsSeqPrefix(p, q) == Len(p) <= Len(q) /\ SubSeq(q, 1, Len(p)) = p

IsSeqSuffix(p, q) == Len(p) <= Len(q) /\ SubSeq(q, Len(q) - Len(p) + 1, Len(q)) = p

NodesOf(q) == [i \in 1..Len(q) |-> q[i].node]

\* A traversal without seek has run to None.
FreshDone == fresh /\ ret = None

\* A traversal after a seek has run to None.
SeekDone == ~fresh /\ ret = None

(***************************************************************************)
(* C2                                                                      *)
(***************************************************************************)
\* C2: a fresh traversal run to None has yielded every node reachable from
\* the root, each exactly once.
C2_Coverage ==
    FreshDone =>
        /\ Range(yields) = Range(TrieItems(trie))
        /\ NoDuplicates(yields)

\* C2 witness: a finished fresh traversal of a trie with a stale store
\* entry and more than three reachable nodes.
C2_Witness ==
    /\ FreshDone
    /\ Len(yields) > 3
    /\ Len(yields) < Len(Tries[trie].nodes)

(***************************************************************************)
(* C3                                                                      *)
(***************************************************************************)
\* C3: the nodes a fresh traversal has yielded so far are the first nodes of
\* the trie in pre-order (a node before its descendants, the children of a
\* branch with their subtrees in ascending nibble order).
C3_PreOrder ==
    fresh => IsSeqPrefix(NodesOf(yields), NodesOf(TrieItems(trie)))

\* C3 witness: a fresh traversal has gone through the subtree of one child
\* of a branch and has yielded the branch's next child.
C3_Witness ==
    /\ fresh
    /\ Len(yields) > 2
    /\ \E i \in 1..(Len(yields) - 2) :
          /\ IsBranchKind(Tries[trie].nodes[yields[i].node])
          /\ Len(yields[Len(yields)].path) = Len(yields[i + 1].path)
          /\ Len(yields[Len(yields) - 1].path) > Len(yields[i + 1].path)

(***************************************************************************)
(* C4                                                                      *)
(***************************************************************************)
\* C4: every yield, in a plain traversal or after a seek, reports its node
\* with the path at which the node sits: the partial paths and child
\* nibbles of its ancestors, without the node's own partial path.
C4_PathConsistency ==
    \A i \in 1..Len(yields) : yields[i] \in Range(TrieItems(trie))

\* C4 witness: after a seek, a leaf with a partial path of its own has been
\* yielded below an ancestor with a partial path.
C4_Witness ==
    /\ ~fresh
    /\ yields # <<>>
    /\ LET y == yields[Len(yields)]
       IN  /\ Tries[trie].nodes[y.node].kind = "Leaf"
           /\ Tries[trie].nodes[y.node].partial # <<>>
           /\ Len(y.path) > 2

(***************************************************************************)
(* C5                                                                      *)
(***************************************************************************)
IsStrictPrefix(p, s) == Len(p) < Len(s) /\ SubSeq(s, 1, Len(p)) = p

\* C5: of two consecutive yields with no seek in between, the path of the
\* first is a strict prefix of, or lexicographically less than, the path of
\* the second.
C5_Ordering ==
    \A i \in 1..(Len(yields) - 1) :
        \/ IsStrictPrefix(yields[i].path, yields[i + 1].path)
        \/ NibbleLess(yields[i].path, yields[i + 1].path)

\* C5 witness: a yield whose path extends the path before it, followed by a
\* yield whose path does not.
C5_Witness ==
    /\ Len(yields) > 2
    /\ LET n == Len(yields)
       IN  /\ IsStrictPrefix(yields[n - 2].path, yields[n - 1].path)
           /\ ~IsStrictPrefix(yields[n - 1].path, yields[n].path)

(***************************************************************************)
(* C6                                                                      *)
(***************************************************************************)
\* C6 as stated: the path reported by the first yield after seek(K) is >= K.
C6_FirstPathGeq ==
    (AfterSeekAndNext /\ yields # <<>>) => NibbleGeq(yields[1].path, SeekNibbles)

\* C6 amended: the path reported by the first yield after seek(K), followed
\* by the yielded node's own partial path, is >= K.
C6_FirstFullPathGeq ==
    (AfterSeekAndNext /\ yields # <<>>) =>
        NibbleGeq(FullPath(trie, yields[1]), SeekNibbles)

\* C6 witness: the first yield after a seek reports a path below the key,
\* and the node's partial path takes it to the key or beyond.
C6_Witness ==
    /\ AfterSeekAndNext
    /\ yields # <<>>
    /\ NibbleLess(yields[1].path, SeekNibbles)
    /\ NibbleGeq(FullPath(trie, yields[1]), SeekNibbles)

(***************************************************************************)
(* C7                                                                      *)
(***************************************************************************)
\* C7: the traversal after seek(K), run to None, has yielded every node of
\* the trie that sits at a path >= K.
C7_NothingSkipped ==
    SeekDone =>
        \A k \in 1..Len(TrieItems(trie)) :
            NibbleGeq(TrieItems(trie)[k].path, SeekNibbles) =>
                TrieItems(trie)[k] \in Range(yields)

\* C7 witness: a traversal after a seek has run to None; the key is inside
\* the trie, with nodes before it and more than one node at or after it.
C7_Witness ==
    /\ SeekDone
    /\ Len(yields) > 1
    /\ \E k \in 1..Len(TrieItems(trie)) :
          /\ k > 1
          /\ NibbleLess(TrieItems(trie)[k].path, SeekNibbles)

(***************************************************************************)
(* C8                                                                      *)
(***************************************************************************)
\* C8: seek with the empty key leaves the single root frame, Entering, and
\* an empty key_nibbles; the traversal that follows yields what the
\* traversal of a fresh iterator yields.
C8_SeekEmptyRestores ==
    (~fresh /\ seek_key = <<>>) =>
        /\ ret = NoCall =>
              /\ trail = <<[node |-> root_data(trie), status |-> Entering]>>
              /\ key_nibbles = <<>>
        /\ IsSeqPrefix(yields, FreshTraversal(trie))
        /\ ret = None => yields = FreshTraversal(trie)

\* C8 witness: the traversal after seek(empty) has run to None over a trie
\* of more than three nodes.
C8_Witness ==
    /\ SeekDone
    /\ seek_key = <<>>
    /\ Len(yields) > 3

(***************************************************************************)
(* C9                                                                      *)
(***************************************************************************)
\* C9: the items yielded after seek(K), up to None, are a contiguous suffix
\* of the items a fresh iterator yields over the same trie.
C9_SuffixOfFresh ==
    SeekDone => IsSeqSuffix(yields, FreshTraversal(trie))

\* C9 witness: a traversal after a seek has run to None and has yielded
\* some of the trie's nodes, more than one and not all.
C9_Witness ==
    /\ SeekDone
    /\ Len(yields) > 1
    /\ Len(yields) < Len(FreshTraversal(trie))

(***************************************************************************)
(* C10                                                                     *)
(***************************************************************************)
IsEmptyTrie(t) == decode(t, root_data(t)).kind = "Empty"

\* C10: a fresh iterator over the empty trie yields the Empty node at the
\* empty path on the first next(), and None from then on.
C10_EmptyTrie ==
    (fresh /\ IsEmptyTrie(trie)) =>
        /\ ret = NoCall => yields = <<>>
        /\ ret # NoCall =>
              /\ yields = <<Item(<<>>, root_data(trie))>>
              /\ ret \in {Some(<<>>, root_data(trie)), None}

\* C10 witness: over the empty trie next() has yielded the Empty node and
\* has then returned None.
C10_Witness ==
    /\ fresh
    /\ IsEmptyTrie(trie)
    /\ ret = None
    /\ Len(yields) = 1

(***************************************************************************)
(* C11                                                                     *)
(***************************************************************************)
\* The call of next() made from the present state.
Pending == next(trie, Iter(trail, key_nibbles))

\* Every frame passes through at most NIBBLE_LENGTH + 3 cursor positions
\* and is pushed and popped once: a bound on the turns of the loop of next().
StepBound(t) == Len(TrieItems(t)) * (NIBBLE_LENGTH + 5)

\* C11: every call of next() returns after a bounded number of turns of its
\* loop, with a node or with None, and a traversal yields at most as many
\* nodes as the trie has before it returns None: it reaches None after
\* finitely many calls.
C11_Terminates ==
    /\ Pending.steps <= StepBound(trie)
    /\ Pending.ret.tag \in {"Some", "None"}
    /\ Len(yields) <= Len(TrieItems(trie))
    /\ Len(yields) = Len(TrieItems(trie)) => Pending.ret = None

\* A traversal has yielded its last node, and the call that is pending
\* takes NIBBLE_LENGTH turns of the loop and more before it returns None.
C11_Witness ==
    /\ ret.tag = "Some"
    /\ yields # <<>>
    /\ Pending.steps >= NIBBLE_LENGTH
    /\ Pending.ret = None

(***************************************************************************)
(* C12                                                                     *)
(***************************************************************************)
\* The place in traversal order of the first node that cannot be entered.
FirstFaulty(t) ==
    CHOOSE k \in 1..Len(TrieItems(t)) :
        /\ IsFaulty(t, TrieItems(t)[k])
        /\ \A j \in 1..(k - 1) : ~IsFaulty(t, TrieItems(t)[j])

\* q is a run of consecutive elements of all.
ContiguousIn(q, all) ==
    \/ q = <<>>
    \/ \E s \in 1..Len(all) :
          /\ s + Len(q) - 1 <= Len(all)
          /\ SubSeq(all, s, s + Len(q) - 1) = q

\* The walk of seek for the key of the last seek comes to a node that
\* cannot be entered: one that sits at a prefix of the key.
FaultyOnWalk ==
    \E i \in 1..Len(FaultyItems(trie)) :
        IsPrefix(FaultyItems(trie)[i].path, SeekNibbles)

\* C12: over a store that has lost an entry or holds bytes the codec
\* rejects, a child that cannot be entered is never skipped and never
\* yielded: the nodes yielded are consecutive in traversal order, next()
\* returns Some(Err) when the node next in order cannot be entered, never
\* None before it, and seek() returns Err exactly when its walk comes to
\* such a node.
C12_ErrorsReported ==
    LET all == TrieItems(trie)
        faulty == FaultyItems(trie)
        k == FirstFaulty(trie)
    IN  /\ \A i \in 1..Len(yields) : ~IsFaulty(trie, yields[i])
        /\ ContiguousIn(yields, all)
        /\ ret.tag = "SomeErr" =>
              \E i \in 1..Len(faulty) : faulty[i].path = key_nibbles
        /\ fresh =>
              /\ IsSeqPrefix(yields, all)
              /\ Len(yields) < k
              /\ ret # None
              /\ (k = 1) <=> (ret.tag = "Err")
              /\ ret.tag = "SomeErr" => Len(yields) = k - 1
              /\ (Len(yields) = k - 1 /\ ~Failed) => Pending.ret.tag = "SomeErr"
        /\ ~fresh =>
              /\ ret.tag \in {"NoCall", "Err"} => ((ret.tag = "Err") <=> FaultyOnWalk)
              /\ ret.tag \notin {"NoCall", "Err"} => ~FaultyOnWalk
              /\ ret = None =>
                    \A i \in 1..Len(faulty) : NibbleLess(faulty[i].path, SeekNibbles)

\* After a seek and some nodes, next() has come to bytes the codec rejects.
C12_Witness ==
    /\ ~fresh
    /\ yields # <<>>
    /\ ret.tag = "SomeErr"
    /\ ret.err.kind = "DecoderError"

(***************************************************************************)
(* C13                                                                     *)
(***************************************************************************)
\* C13: whenever the codec rejects bytes, in new(), next() or seek(), the
\* error is DecoderError(hash) with the hash of exactly the rejected bytes:
\* those of the node that sits at the path the iterator had come to.
C13_DecoderErrorHash ==
    (Failed /\ ret.err.kind = "DecoderError") =>
        \E i \in 1..Len(FaultyItems(trie)) :
            LET item == FaultyItems(trie)[i]
            IN  /\ Tries[trie].nodes[item.node] = Corrupt
                /\ item.path = key_nibbles
                /\ ret.err.hash = L_Hash_hash(item.node)

(***************************************************************************)
(* C14                                                                     *)
(***************************************************************************)
\* The iterator as new() makes it.
NewIter == Iter(new(trie).trail, new(trie).key_nibbles)

\* C14: from every position the iterator can be in, after any order of
\* seeks and calls of next(), seek(K) leaves the state that seek(K) leaves
\* on a new iterator, and so the same yields after it; and the position a
\* seek has left is that one.
C14_SeekForgetsPosition ==
    /\ \A key \in AnyKeys :
          LET here == seek(trie, Iter(trail, key_nibbles), key)
              anew == seek(trie, NewIter, key)
          IN  /\ here.trail = anew.trail
              /\ here.key_nibbles = anew.key_nibbles
              /\ here.err = anew.err
    /\ (~fresh /\ ret = NoCall) =>
          /\ trail = seek(trie, NewIter, seek_key).trail
          /\ key_nibbles = seek(trie, NewIter, seek_key).key_nibbles
    /\ SeekDone =>
          yields = Drain(trie, seek(trie, NewIter, seek_key))

\* A traversal after a seek has run to None, and a seek with another key
\* from there positions the iterator inside the trie.
C14_Witness ==
    /\ SeekDone
    /\ yields # <<>>
    /\ \E key \in AnyKeys :
          /\ key # seek_key
          /\ Len(seek(trie, Iter(trail, key_nibbles), key).trail) >= 2

(***************************************************************************)
(* C15                                                                     *)
(***************************************************************************)
\* What a frame with a frame above it has put on the path: its partial
\* path, and the nibble of the child it is at.
Contribution(t, crumb) ==
    LET n == Tries[t].nodes[crumb.node]
    IN  (IF n.kind \in {"Extension", "NibbledBranch"} THEN n.partial ELSE <<>>)
        \o (IF IsAtChild(crumb.status) THEN <<crumb.status.x>> ELSE <<>>)

\* The contributions of the first k frames of a trail, in order.
RECURSIVE PathOfFrames(_, _, _)
PathOfFrames(t, tr, k) ==
    IF k = 0 THEN <<>>
    ELSE PathOfFrames(t, tr, k - 1) \o Contribution(t, tr[k])

\* The path at which the node of the top frame sits.
TopPosition(t, tr) == PathOfFrames(t, tr, Len(tr) - 1)

\* The part of the top frame as the statement has it: nothing when the
\* frame is Entering, its partial path (and child nibble) otherwise.
TopAsStated(t, crumb) ==
    IF crumb.status = Entering THEN <<>>
    ELSE PartialOf(Tries[t].nodes[crumb.node])
         \o (IF IsAtChild(crumb.status) THEN <<crumb.status.x>> ELSE <<>>)

\* The part of the top frame between calls: nothing when the frame is
\* Entering or At, or is a Leaf or Empty; its partial path and child nibble
\* when seek left it AtChild; its partial path (Extension) or its partial
\* path and the nibble NIBBLE_LENGTH - 1 (NibbledBranch) when seek marked
\* it Exiting.
TopBetweenCalls(t, crumb) ==
    LET n == Tries[t].nodes[crumb.node]
    IN  CASE crumb.status \in {Entering, At} -> <<>>
          [] IsAtChild(crumb.status) -> Contribution(t, crumb)
          [] crumb.status = Exiting /\ n.kind = "Extension" -> n.partial
          [] crumb.status = Exiting /\ n.kind = "NibbledBranch" ->
                Append(n.partial, NIBBLE_LENGTH - 1)
          [] OTHER -> <<>>

\* C15 as stated: between calls key_nibbles is the concatenation of the
\* partial paths and chosen branch nibbles along the trail, the partial
\* path of the top frame left out only when the top frame is Entering.
C15_PathOfStack ==
    ~Failed =>
        key_nibbles =
            IF trail = <<>> THEN <<>>
            ELSE TopPosition(trie, trail) \o TopAsStated(trie, trail[Len(trail)])

\* C15, amended: between calls key_nibbles is the concatenation of the
\* partial paths and chosen branch nibbles of the frames under the top,
\* followed by the part of the top frame, which is empty also when the
\* top frame is At (a node just yielded) and when it is a Leaf.
C15_PathOfStackAmended ==
    ~Failed =>
        key_nibbles =
            IF trail = <<>> THEN <<>>
            ELSE TopPosition(trie, trail) \o TopBetweenCalls(trie, trail[Len(trail)])

\* An Extension under other frames has just been yielded: it is At, and
\* its partial path is not on key_nibbles.
C15_Witness ==
    /\ ret.tag = "Some"
    /\ Len(trail) >= 2
    /\ trail[Len(trail)].status = At
    /\ Tries[trie].nodes[trail[Len(trail)].node].kind = "Extension"
    /\ key_nibbles = TopPosition(trie, trail)

(***************************************************************************)
(* C16                                                                     *)
(***************************************************************************)
\* C16: between calls the trail is empty exactly when the last call was a
\* next() that returned None, no seek having followed; and from there the
\* next call of next() returns None again.
C16_EmptyIffDone ==
    ~Failed =>
        /\ (trail = <<>>) <=> (ret = None)
        /\ ret = None => Pending.ret = None

\* A traversal after a seek has yielded nodes and come to None.
C16_Witness ==
    /\ ~fresh
    /\ yields # <<>>
    /\ ret = None
    /\ trail = <<>>

(***************************************************************************)
(* C17                                                                     *)
(***************************************************************************)
\* The cursor table, by status and node variant.
CursorTable(s, kind) ==
    CASE s = Entering /\ kind \in {"Empty", "Leaf"} -> Exiting
      [] s = Entering /\ kind \in {"Extension", "Branch", "NibbledBranch"} -> At
      [] s = At /\ kind \in {"Empty", "Leaf", "Extension"} -> Exiting
      [] s = At /\ kind \in {"Branch", "NibbledBranch"} -> AtChild(0)
      [] IsAtChild(s) /\ kind \in {"Branch", "NibbledBranch"} ->
            IF s.x < NIBBLE_LENGTH - 1 THEN AtChild(s.x + 1) ELSE Exiting
      [] s = Exiting -> Exiting

\* The pairs of status and variant the table has an entry for.
InCursorTable(s, kind) ==
    IsAtChild(s) => kind \in {"Branch", "NibbledBranch"}

\* The place of a status in the order Entering, At, AtChild(0), ...,
\* AtChild(NIBBLE_LENGTH - 1), Exiting.
CursorRank(s) ==
    CASE s = Entering -> 0
      [] s = At -> 1
      [] IsAtChild(s) -> s.x + 2
      [] s = Exiting -> NIBBLE_LENGTH + 2

\* C17: for a crumb of any node variant in any status, increment moves the
\* status as the cursor table has it, and never to a status earlier in
\* the order Entering, At, AtChild(0), ..., AtChild(15), Exiting.
C17_CursorTable ==
    LET crumb == trail[1]
        kind == Tries[trie].nodes[crumb.node].kind
        after == increment(trie, crumb)
    IN  /\ after.node = crumb.node
        /\ InCursorTable(crumb.status, kind) =>
              after.status = CursorTable(crumb.status, kind)
        /\ CursorRank(after.status) >= CursorRank(crumb.status)

\* A crumb of a branch at its last child, which increment moves to Exiting.
C17_Witness ==
    /\ trail[1].status = AtChild(NIBBLE_LENGTH - 1)
    /\ Tries[trie].nodes[trail[1].node].kind = "NibbledBranch"
    /\ increment(trie, trail[1]).status = Exiting

(***************************************************************************)
(* C18                                                                     *)
(***************************************************************************)
\* The number of nibbles the Exiting step takes off for a node.
DropCount(n) ==
    CASE n.kind \in {"Empty", "Leaf"} -> 0
      [] n.kind = "Extension" -> Len(n.partial)
      [] n.kind = "Branch" -> 1
      [] n.kind = "NibbledBranch" -> Len(n.partial) + 1

\* An Exiting step took off what the node had put on, no more: key_nibbles
\* held that many nibbles over the path at which the node sits, and is
\* that path afterwards.
ExitInOrder(t, e) ==
    LET crumb == e.trail[Len(e.trail)]
        n == Tries[t].nodes[crumb.node]
    IN  /\ crumb.status = Exiting
        /\ Len(e.before) >= DropCount(n)
        /\ Len(e.before) = Len(e.after) + DropCount(n)
        /\ IsPrefix(e.after, e.before)
        /\ e.after = TopPosition(t, e.trail)
        /\ Item(e.after, crumb.node) \in Range(TrieItems(t))

\* C18: in every Exiting step of every call of next(), after a traversal
\* or a seek, key_nibbles holds the nibbles the step takes off (0 for
\* Empty and Leaf, |P| for Extension, 1 for Branch, |P| + 1 for
\* NibbledBranch) over the path at which the popped node sits, and is
\* that path after the step.
C18_ExitingDrops ==
    ~Failed =>
        \A k \in 1..Len(Pending.exits) : ExitInOrder(trie, Pending.exits[k])

\* seek has marked a NibbledBranch under another frame Exiting, and the
\* call of next() that is pending pops it.
C18_Witness ==
    /\ ~fresh
    /\ ret = NoCall
    /\ Len(trail) >= 2
    /\ trail[Len(trail)].status = Exiting
    /\ Tries[trie].nodes[trail[Len(trail)].node].kind = "NibbledBranch"
    /\ Len(Pending.exits) >= 1

(***************************************************************************)
(* C19                                                                     *)
(***************************************************************************)
\* A child lookup is made under the Prefix of the path from the root to
\* the child: the path the frames of the moment spell, the parent on top,
\* at which the child sits in the trie; and key_nibbles is that path.
LookupInOrder(t, l) ==
    LET path == PathOfFrames(t, l.trail, Len(l.trail))
    IN  /\ l.prefix = Prefix(path)
        /\ l.key_nibbles = path
        /\ Item(path, l.child) \in Range(TrieItems(t))

\* C19: every child lookup of next() and of seek() is made under the
\* prefix of the full path from the root to the child, the path at which
\* the child sits in the trie and under which next() yields it; the prefix
\* seek takes of the key is that of key_nibbles at that moment.
C19_LookupPrefixes ==
    ~Failed =>
        /\ \A k \in 1..Len(Pending.lookups) :
              LookupInOrder(trie, Pending.lookups[k])
        /\ \A key \in SeekInputs :
              LET sought == seek(trie, Iter(trail, key_nibbles), key)
              IN  \A k \in 1..Len(sought.lookups) :
                      /\ LookupInOrder(trie, sought.lookups[k])
                      /\ sought.lookups[k].prefix =
                            as_prefix(sought.lookups[k].key_nibbles)

\* The call of next() that is pending looks a child up at a path of an
\* odd number of nibbles, and a seek from here looks up a child of a child.
C19_Witness ==
    /\ ret.tag = "Some"
    /\ \E k \in 1..Len(Pending.lookups) :
          Pending.lookups[k].prefix.last # <<>>
    /\ \E key \in SeekInputs :
          Len(seek(trie, Iter(trail, key_nibbles), key).lookups) >= 2

(***************************************************************************)
(* C20                                                                     *)
(***************************************************************************)
\* The state the last seek left.
LastSought == seek(trie, NewIter, seek_key)

\* The last seek left a NibbledBranch whose partial path is below the key
\* Exiting: key_nibbles then ends with its partial path and the nibble
\* NIBBLE_LENGTH - 1 pushed in place of a child's.
SoughtWithSentinel ==
    /\ ~fresh
    /\ LastSought.trail # <<>>
    /\ LastSought.trail[Len(LastSought.trail)].status = Exiting
    /\ Tries[trie].nodes[LastSought.trail[Len(LastSought.trail)].node].kind
          = "NibbledBranch"

SentinelPath == LastSought.key_nibbles

\* C20: the nibble 15 seek pushes for a NibbledBranch whose partial path
\* is below the key is taken off by the first Exiting step of the next
\* call of next(), before that call yields: no node is yielded at or
\* under the path that ends with it, and key_nibbles no longer holds it
\* once next() has been called.
C20_SentinelRemoved ==
    SoughtWithSentinel =>
        /\ ret = NoCall =>
              /\ key_nibbles = SentinelPath
              /\ key_nibbles[Len(key_nibbles)] = NIBBLE_LENGTH - 1
              /\ Pending.exits # <<>>
              /\ Pending.exits[1].before = SentinelPath
              /\ Pending.exits[1].after = TopPosition(trie, trail)
              /\ Pending.ret.tag = "Some" =>
                    ~IsPrefix(SentinelPath, Pending.ret.path)
        /\ ret # NoCall => ~IsPrefix(SentinelPath, key_nibbles)
        /\ \A k \in 1..Len(yields) :
              /\ ~IsPrefix(SentinelPath, yields[k].path)
              /\ yields[k] \in Range(TrieItems(trie))

\* After a seek that pushed the nibble, next() has yielded a node.
C20_Witness ==
    /\ SoughtWithSentinel
    /\ ret.tag = "Some"
    /\ yields # <<>>

(***************************************************************************)
(* C21                                                                     *)
(***************************************************************************)
\* The pairs of status and node variant the arms of next() provide for.
ExpectedCursor(s, kind) ==
    \/ s \in {Entering, Exiting}
    \/ s = At /\ kind \in {"Extension", "Branch", "NibbledBranch"}
    \/ /\ IsAtChild(s)
       /\ kind \in {"Branch", "NibbledBranch"}
       /\ s.x \in 0..(NIBBLE_LENGTH - 1)

\* C21: on a trie that decodes, the frames of every state new(), next()
\* and seek() lead to, the top frame among them, have a status their
\* node's variant provides for: At and AtChild never on an Empty or Leaf,
\* AtChild never on an Extension; and no turn of the loop of the call of
\* next() that is pending comes to the arm that panics.
C21_NoUnexpectedCursor ==
    /\ \A k \in 1..Len(trail) :
          ExpectedCursor(trail[k].status, Tries[trie].nodes[trail[k].node].kind)
    /\ Pending.ret # Panic

\* seek has left a NibbledBranch on top at a child it has not, and the
\* call of next() that is pending goes on from that cursor.
C21_Witness ==
    /\ ~fresh
    /\ ret = NoCall
    /\ trail # <<>>
    /\ IsAtChild(trail[Len(trail)].status)
    /\ Tries[trie].nodes[trail[Len(trail)].node].kind = "NibbledBranch"
    /\ Pending.steps >= 2

(***************************************************************************)
(* C22                                                                     *)
(***************************************************************************)
\* The number of nodes on the longest chain from the node id down.
RECURSIVE DepthFrom(_, _)
DepthFrom(t, id) ==
    LET ch == ChildItems(t, id, <<>>)
        below == {DepthFrom(t, ch[k].node) : k \in 1..Len(ch)}
    IN  IF ch = <<>> THEN 1
        ELSE 1 + CHOOSE d \in below : \A e \in below : e <= d

\* The depth of each of the tries.
TrieDepthOf == [t \in DOMAIN Tries |-> DepthFrom(t, Tries[t].root)]

\* The frame k of a trail, under the frame k + 1, is at the child that
\* frame holds: an Extension is At and the frame above holds its child,
\* a branch is AtChild(i) and the frame above holds its child i.
FrameLeadsToNext(t, tr, k) ==
    LET crumb == tr[k]
        n == Tries[t].nodes[crumb.node]
    IN  CASE n.kind = "Extension" ->
                /\ crumb.status = At
                /\ tr[k + 1].node = n.child
          [] n.kind \in {"Branch", "NibbledBranch"} ->
                /\ IsAtChild(crumb.status)
                /\ tr[k + 1].node = n.children[crumb.status.x]
          [] OTHER -> FALSE

\* C22: between calls the trail is a chain from the root to a node: the
\* first frame holds the root, every frame under the top is an Extension
\* that is At or a branch that is AtChild(i), the frame above it holding
\* its child, so that only the top frame is Entering or Exiting; and the
\* trail is no longer than the trie is deep.
C22_RootToNodeChain ==
    ~Failed =>
        /\ trail # <<>> => trail[1].node = root_data(trie)
        /\ \A k \in 1..(Len(trail) - 1) :
              /\ FrameLeadsToNext(trie, trail, k)
              /\ trail[k].status \notin {Entering, Exiting}
        /\ Len(trail) <= TrieDepthOf[trie]

\* After a seek, next() has yielded a node at the bottom of the trie: the
\* trail is as long as the trie is deep, over three frames and more.
C22_Witness ==
    /\ ~fresh
    /\ ret.tag = "Some"
    /\ Len(trail) >= 3
    /\ Len(trail) = TrieDepthOf[trie]

==============================================================================
